---- MODULE Spec2Model ----
(***************************************************************************)
(* rubot: a game bot (alpha-beta with iterative deepening) driven by a    *)
(* polled run condition.                                                  *)
(*                                                                        *)
(* Modelled from src/src/lib.rs (the Game contract, the run conditions    *)
(* Steps, Depth, ToCompletion and the Logger decorator) and from          *)
(* src/fuzz/fuzz_targets/to_completion.rs (the synthetic game tree Node   *)
(* and its construction from bytes).  The modules alpha_beta and brute    *)
(* are declared in lib.rs but their files are not part of the sources:    *)
(* the search engine (Bot::select) and the oracle (brute::Bot) are        *)
(* modelled from the design document and from the doc test of Depth.      *)
(***************************************************************************)
EXTENDS Integers, Sequences, FiniteSets, TLC

(***************************************************************************)
(* Bounds of the model.                                                   *)
(***************************************************************************)
\* number of bytes after the 4 seed bytes, i.e. nodes pushed by from_bytes
MaxNodes == 4
\* the bytes the fuzz input is made of: nodes of either player, with
\* fitness 1, 0 and -2
FuzzBytes == {0, 1, 255}
\* Steps(N) is taken with N in 0..MaxStepsN
MaxStepsN == 5
\* Depth(D) is taken with D in 0..MaxDepthD
MaxDepthD == 2
\* calls polled on a run condition that is exercised on its own
MaxPolls == 4
\* calls of select made, one after the other, on one state
MaxCalls == 2
\* bytes the trees are made of on which select is called more than once
MaxCallNodes == 3

(***************************************************************************)
(* Option<T>: None is the empty sequence, Some(x) the one-element one.     *)
(***************************************************************************)
None == <<>>

Some(x) == <<x>>

IsSome(o) == Len(o) = 1

Unwrap(o) == o[1]

(***************************************************************************)
(* The game tree of the fuzz target: struct Node { player, fitness,       *)
(* children }.  Fitness is an i8, always from the view of the tested      *)
(* player.                                                                *)
(***************************************************************************)
I8Min == -128

I8Max == 127

\* Node::new(player, fitness): a node without children
NodeNew(player, fitness) ==
  [player |-> player, fitness |-> fitness, children |-> <<>>]

\* `(i ^ 1) as i8` for a byte i: flip the lowest bit, reinterpret as signed
XorOneAsI8(i) ==
  LET x == IF i % 2 = 0 THEN i + 1 ELSE i - 1
  IN  IF x > I8Max THEN x - 256 ELSE x

\* the node pushed for byte i: Node::new(i & 1 == 0, (i ^ 1) as i8)
NodeOfByte(i) == NodeNew(i % 2 = 0, XorOneAsI8(i))

\* number of nodes below (and not counting) `node`
RECURSIVE Size(_)
Size(node) ==
  LET RECURSIVE Sum(_)
      Sum(k) == IF k = 0 THEN 0 ELSE 1 + Size(node.children[k]) + Sum(k - 1)
  IN  Sum(Len(node.children))

\* the positions the walk of from_bytes can stop at: every node of the tree,
\* named by the child indices (from 1) on the way down from the root
RECURSIVE Paths(_)
Paths(node) ==
  {<<>>} \cup UNION { { <<k>> \o p : p \in Paths(node.children[k]) }
                      : k \in 1..Len(node.children) }

\* pos.children.push(new) at the node the walk stopped at
RECURSIVE PushAt(_, _, _)
PushAt(node, path, new) ==
  IF path = <<>>
  THEN [node EXCEPT !.children = Append(@, new)]
  ELSE [node EXCEPT !.children[Head(path)] = PushAt(@, Tail(path), new)]

\* variant of NodeActions: the actions are supplied from the last child to
\* the first
NodeActionsReversed(node, player) ==
  [active  |-> (player = node.player),
   actions |-> [k \in 1..Len(node.children) |-> Len(node.children) - k]]

\* impl Game for Node: actions = (player == self.player, 0..children.len())
NodeActions(node, player) ==
  [active  |-> (player = node.player),
   actions |-> [k \in 1..Len(node.children) |-> k - 1]]

\* variant of NodeExecute: the fitness is read before the state is replaced
NodeExecuteStaleFitness(node, action, player) ==
  [state   |-> node.children[action + 1],
   fitness |-> node.fitness]

\* variant of NodeExecute: the state becomes the first child, whatever the
\* action
NodeExecuteFirstChild(node, action, player) ==
  [state   |-> node.children[1],
   fitness |-> node.children[action + 1].fitness]

\* execute: *self = self.children[action].clone(); returns self.fitness
NodeExecute(node, action, player) ==
  [state   |-> node.children[action + 1],
   fitness |-> node.children[action + 1].fitness]

\* variant of NodeLookAhead: the fitness of the node itself, not of the child
NodeLookAheadOwnFitness(node, action, player) == node.fitness

\* look_ahead (overridden by Node): self.children[action].fitness
NodeLookAhead(node, action, player) == node.children[action + 1].fitness

\* #[derive(Clone)] on Node: a copy with the same fields
NodeClone(node) ==
  [player |-> node.player, fitness |-> node.fitness,
   children |-> node.children]

\* variant of DefaultLookAhead: execute is applied to the receiver itself
DefaultLookAheadInPlace(node, action, player) ==
  LET x == NodeExecute(node, action, player)
  IN  [fitness |-> x.fitness, receiver |-> x.state]

\* the default Game::look_ahead: self.clone().execute(action, player).
\* The result is the fitness returned and the receiver after the call.
DefaultLookAhead(node, action, player) ==
  LET copy == NodeClone(node)
      x == NodeExecute(copy, action, player)
  IN  [fitness |-> x.fitness, receiver |-> node]

\* the root from_bytes starts from, Node::new(true, 0)
RootNode == NodeNew(TRUE, 0)

\* the player the bot is created for: Bot::new(true)
BotPlayer == TRUE

\* the two-ply tree of the doc test of Depth
DocTree ==
  [player |-> TRUE, fitness |-> 0, children |-> <<
     [player |-> FALSE, fitness |-> 7,
      children |-> << NodeNew(TRUE, 4), NodeNew(TRUE, 2) >>],
     [player |-> FALSE, fitness |-> 5,
      children |-> << NodeNew(TRUE, 8), NodeNew(TRUE, 9) >>] >>]

(***************************************************************************)
(* Run conditions.  A run condition is the record [kind, a, b]:           *)
(*   InnerSteps(a, b)  kind "Steps", a = calls so far, b = the budget     *)
(*   Depth(a)          kind "Depth"                                       *)
(*   ToCompletion      kind "ToCompletion"                                *)
(* A poll returns [ok |-> the answer, cond |-> the condition afterwards]. *)
(*                                                                        *)
(* The call counter of InnerSteps is a u32.  A u32 is held as the signed  *)
(* 32-bit integer that has the same bits: the values up to 2^31 - 1 are   *)
(* themselves, a value v from 2^31 on is v - 2^32, and u32::MAX is -1.    *)
(***************************************************************************)
\* u32::MAX
U32Max == -1

\* x + 1 on a u32 without overflow checks: the sum modulo 2^32
U32WrappingInc(x) == IF x = 2147483647 THEN -2147483647 - 1 ELSE x + 1

\* x < y on u32
U32Lt(x, y) == IF (x >= 0) = (y >= 0) THEN x < y ELSE y < 0

\* the budget descriptors handed to select
Steps(n) == [kind |-> "Steps", n |-> n]

Depth(n) == [kind |-> "Depth", n |-> n]

ToCompletion == [kind |-> "ToCompletion", n |-> 0]

Budgets ==
  {ToCompletion} \cup { Steps(n) : n \in 0..MaxStepsN }
                 \cup { Depth(n) : n \in 0..MaxDepthD }

\* impl IntoRunCondition for Steps: InnerSteps(0, self.0)
StepsIntoRunCondition(n) == [kind |-> "Steps", a |-> 0, b |-> n]

\* variant of InnerStepsStep: the counter is compared, with <=, before it
\* is incremented
InnerStepsStepCompareFirst(c) ==
  [ok |-> c.a <= c.b, cond |-> [c EXCEPT !.a = c.a + 1]]

\* impl RunCondition for InnerSteps: self.0 += 1; self.0 < self.1
InnerStepsStep(c) ==
  LET n == U32WrappingInc(c.a)
  IN  [ok |-> U32Lt(n, c.b), cond |-> [c EXCEPT !.a = n]]

InnerStepsDepth(c, d) == [ok |-> TRUE, cond |-> c]

\* variant of ToCompletionStep: the calls are counted and the answer is
\* false from the fourth call on
ToCompletionStepCounting(c) ==
  [ok |-> c.a < 3, cond |-> [c EXCEPT !.a = @ + 1]]

\* variant of ToCompletionStep: the answer is false
ToCompletionStepRefuses(c) == [ok |-> FALSE, cond |-> c]

\* impl RunCondition for ToCompletion
ToCompletionStep(c) == [ok |-> TRUE, cond |-> c]

ToCompletionDepth(c, d) == [ok |-> TRUE, cond |-> c]

\* impl RunCondition for Depth: step is true, depth is self.0 > depth
DepthStep(c) == [ok |-> TRUE, cond |-> c]

\* variant of DepthDepth: the comparison also admits depth = self.0
DepthDepthInclusive(c, d) == [ok |-> c.a >= d, cond |-> c]

DepthDepth(c, d) == [ok |-> c.a > d, cond |-> c]

\* into_run_condition of a budget descriptor (the identity for the types
\* that are their own run condition)
IntoRunCondition(budget) ==
  IF budget.kind = "Steps"
  THEN StepsIntoRunCondition(budget.n)
  ELSE [kind |-> budget.kind, a |-> budget.n, b |-> 0]

\* RunCondition::step and RunCondition::depth, dispatched on the type
CondStep(c) ==
  CASE c.kind = "Steps" -> InnerStepsStep(c)
    [] c.kind = "Depth" -> DepthStep(c)
    [] OTHER            -> ToCompletionStep(c)

CondDepth(c, d) ==
  CASE c.kind = "Steps" -> InnerStepsDepth(c, d)
    [] c.kind = "Depth" -> DepthDepth(c, d)
    [] OTHER            -> ToCompletionDepth(c, d)

(***************************************************************************)
(* Logger<T>: the decorator.  The field duration (wall-clock time) is not *)
(* modelled.                                                              *)
(***************************************************************************)
\* Logger::new(condition)
LoggerNew(budget) ==
  [condition |-> IntoRunCondition(budget), steps |-> 0, depth |-> 0]

\* variant of LoggerIntoRunCondition: the step counter is not reset
LoggerIntoRunConditionKeepsSteps(lg) == [lg EXCEPT !.depth = 0]

\* impl IntoRunCondition for &mut Logger: steps = 0; depth = 0
LoggerIntoRunCondition(lg) == [lg EXCEPT !.steps = 0, !.depth = 0]

\* variant of InnerLoggerStep: the poll is counted and answered with true,
\* the wrapped condition is not polled
InnerLoggerStepUnforwarded(lg) ==
  [ok |-> TRUE, cond |-> [lg EXCEPT !.steps = @ + 1]]

\* InnerLogger::step: self.0.steps += 1; self.0.condition.step()
InnerLoggerStep(lg) ==
  LET r == CondStep(lg.condition)
  IN  [ok |-> r.ok,
       cond |-> [lg EXCEPT !.steps = @ + 1, !.condition = r.cond]]

\* InnerLogger::depth: self.0.depth = depth; self.0.condition.depth(depth)
InnerLoggerDepth(lg, d) ==
  LET r == CondDepth(lg.condition, d)
  IN  [ok |-> r.ok,
       cond |-> [lg EXCEPT !.depth = d, !.condition = r.cond]]

\* Logger::steps and Logger::depth
LoggerSteps(lg) == lg.steps

LoggerDepth(lg) == lg.depth

(***************************************************************************)
(* The run condition a call of select polls: either the bare condition    *)
(* made from the budget descriptor, or an InnerLogger borrowing a Logger. *)
(* env = [via, logger, rc, log]; log records every poll of the call, in   *)
(* order, as [op, arg, ok], and between them the actions queries and the  *)
(* execute calls of the engine, as [op, arg, ok, at, on].                 *)
(***************************************************************************)
EnvStep(env) ==
  LET r == IF env.via = "logger" THEN InnerLoggerStep(env.logger)
                                 ELSE CondStep(env.rc)
      e == [op |-> "step", arg |-> 0, ok |-> r.ok]
  IN  [ok  |-> r.ok,
       env |-> IF env.via = "logger"
               THEN [env EXCEPT !.logger = r.cond, !.log = Append(@, e)]
               ELSE [env EXCEPT !.rc = r.cond, !.log = Append(@, e)]]

EnvDepth(env, d) ==
  LET r == IF env.via = "logger" THEN InnerLoggerDepth(env.logger, d)
                                 ELSE CondDepth(env.rc, d)
      e == [op |-> "depth", arg |-> d, ok |-> r.ok]
  IN  [ok  |-> r.ok,
       env |-> IF env.via = "logger"
               THEN [env EXCEPT !.logger = r.cond, !.log = Append(@, e)]
               ELSE [env EXCEPT !.rc = r.cond, !.log = Append(@, e)]]

\* the engine queried actions(player) on the state `node` it holds at the
\* position `path` (child indices from the root, counted from 1)
EnvActions(env, path, node, acts) ==
  [env EXCEPT !.log = Append(@, [op |-> "actions", arg |-> Len(acts.actions),
                                 ok |-> TRUE, at |-> path, on |-> node])]

\* the engine called execute(action, player) on the state `node` it holds at
\* the position `path`
EnvExecute(env, path, node, action) ==
  [env EXCEPT !.log = Append(@, [op |-> "execute", arg |-> action,
                                 ok |-> TRUE, at |-> path, on |-> node])]

(***************************************************************************)
(* The search engine, alpha_beta::Bot.  One tier explores the tree to a   *)
(* depth limit with alpha-beta bounds, all fitness being from the view of *)
(* the bot's player: a node where that player is active maximises, any    *)
(* other node minimises.  step() is polled once per expanded node; a node *)
(* at the depth limit is not expanded, it is scored by look_ahead from    *)
(* its parent.  A result is [val, env, cancelled, term]: term says that   *)
(* every scored node had no actions left (nothing was cut by the limit).  *)
(***************************************************************************)
NegInf == I8Min - 1

PosInf == I8Max + 1

Max(x, y) == IF x >= y THEN x ELSE y

Min(x, y) == IF x <= y THEN x ELSE y

RECURSIVE Explore(_, _, _, _, _, _, _)
RECURSIVE ExploreActions(_, _, _, _, _, _, _, _, _, _)
\* the children of `node` from the k-th action on; v is the value so far
ExploreActions(node, path, acts, k, limit, alpha, beta, v, term, env) ==
  IF k > Len(acts.actions)
  THEN [val |-> v, env |-> env, cancelled |-> FALSE, term |-> term]
  ELSE
    LET a == acts.actions[k]
        c == IF limit = 1
             THEN [val |-> NodeLookAhead(node, a, BotPlayer), env |-> env,
                   cancelled |-> FALSE, term |-> FALSE]
             ELSE LET x == NodeExecute(node, a, BotPlayer)
                  IN  Explore(x.state, Append(path, a + 1), x.fitness,
                              limit - 1, alpha, beta,
                              EnvExecute(env, path, node, a))
        nv == IF acts.active THEN Max(v, c.val) ELSE Min(v, c.val)
        na == IF acts.active THEN Max(alpha, nv) ELSE alpha
        nb == IF acts.active THEN beta ELSE Min(beta, nv)
    IN  IF c.cancelled
        THEN c
        ELSE IF na >= nb
             THEN [val |-> nv, env |-> c.env, cancelled |-> FALSE,
                   term |-> term /\ c.term]
             ELSE ExploreActions(node, path, acts, k + 1, limit, na, nb, nv,
                                 term /\ c.term, c.env)

\* variant of Explore: the answer of step() is not looked at
ExploreIgnoresStep(node, path, f, limit, alpha, beta, env) ==
  LET s == EnvStep(env)
      acts == NodeActions(node, BotPlayer)
  IN  IF Len(acts.actions) = 0
      THEN [val |-> f, env |-> EnvActions(s.env, path, node, acts),
            cancelled |-> FALSE, term |-> TRUE]
      ELSE ExploreActions(node, path, acts, 1, limit, alpha, beta,
                          IF acts.active THEN NegInf ELSE PosInf,
                          TRUE, EnvActions(s.env, path, node, acts))

\* expand `node`, the state at `path`, reached with fitness f, with
\* `limit` >= 1 plies left
Explore(node, path, f, limit, alpha, beta, env) ==
  LET s == EnvStep(env)
      acts == NodeActions(node, BotPlayer)
  IN  IF ~s.ok
      THEN [val |-> f, env |-> s.env, cancelled |-> TRUE, term |-> FALSE]
      ELSE IF Len(acts.actions) = 0
           THEN [val |-> f, env |-> EnvActions(s.env, path, node, acts),
                 cancelled |-> FALSE, term |-> TRUE]
           ELSE ExploreActions(node, path, acts, 1, limit, alpha, beta,
                               IF acts.active THEN NegInf ELSE PosInf,
                               TRUE, EnvActions(s.env, path, node, acts))

\* the root actions from the k-th on: an action replaces the best one only
\* when its value is strictly better, so the first of several equals wins
RECURSIVE RootActions(_, _, _, _, _, _, _, _)
\* variant of RootActions: the best action is the position in the list of
\* actions (counted from 1), not the action found there
RootActionsByPosition(state, acts, k, limit, bestAct, bestVal, term, env) ==
  IF k > Len(acts.actions)
  THEN [best |-> bestAct, env |-> env, cancelled |-> FALSE, term |-> term]
  ELSE
    LET a == acts.actions[k]
        c == IF limit = 1
             THEN [val |-> NodeLookAhead(state, a, BotPlayer), env |-> env,
                   cancelled |-> FALSE, term |-> FALSE]
             ELSE LET x == NodeExecute(state, a, BotPlayer)
                  IN  Explore(x.state, <<a + 1>>, x.fitness, limit - 1,
                              bestVal, PosInf, EnvExecute(env, <<>>, state, a))
        better == c.val > bestVal
    IN  IF c.cancelled
        THEN [best |-> bestAct, env |-> c.env, cancelled |-> TRUE, term |-> FALSE]
        ELSE RootActions(state, acts, k + 1, limit,
                         IF better THEN Some(k) ELSE bestAct,
                         IF better THEN c.val ELSE bestVal,
                         term /\ c.term, c.env)

RootActions(state, acts, k, limit, bestAct, bestVal, term, env) ==
  IF k > Len(acts.actions)
  THEN [best |-> bestAct, env |-> env, cancelled |-> FALSE, term |-> term]
  ELSE
    LET a == acts.actions[k]
        c == IF limit = 1
             THEN [val |-> NodeLookAhead(state, a, BotPlayer), env |-> env,
                   cancelled |-> FALSE, term |-> FALSE]
             ELSE LET x == NodeExecute(state, a, BotPlayer)
                  IN  Explore(x.state, <<a + 1>>, x.fitness, limit - 1,
                              bestVal, PosInf, EnvExecute(env, <<>>, state, a))
        better == c.val > bestVal
    IN  IF c.cancelled
        THEN [best |-> bestAct, env |-> c.env, cancelled |-> TRUE, term |-> FALSE]
        ELSE RootActions(state, acts, k + 1, limit,
                         IF better THEN Some(a) ELSE bestAct,
                         IF better THEN c.val ELSE bestVal,
                         term /\ c.term, c.env)

\* one tier of the iterative deepening: the root explored `limit` plies deep
RunTier(state, limit, env) ==
  LET s == EnvStep(env)
      acts == NodeActions(state, BotPlayer)
  IN  IF ~s.ok
      THEN [best |-> None, env |-> s.env, cancelled |-> TRUE, term |-> FALSE]
      ELSE RootActions(state, acts, 1, limit, None, NegInf, TRUE,
                       EnvActions(s.env, <<>>, state, acts))

(***************************************************************************)
(* The oracle, brute::Bot: the value of every action by full minimax,     *)
(* without pruning and without a depth limit.                             *)
(***************************************************************************)
RECURSIVE BruteValue(_, _)
BruteValue(node, f) ==
  LET n == Len(node.children)
      vals == { BruteValue(node.children[k], node.children[k].fitness)
                : k \in 1..n }
  IN  IF n = 0 THEN f
      ELSE IF node.player = BotPlayer
           THEN CHOOSE v \in vals : \A w \in vals : v >= w
           ELSE CHOOSE v \in vals : \A w \in vals : v <= w

\* the value the oracle gives to taking `action` at the root `state`
BruteActionValue(state, action) ==
  BruteValue(state.children[action + 1], state.children[action + 1].fitness)

\* the oracle's minimax stopped `limit` plies below `node`: a node that far
\* down counts with the fitness f it was reached with
RECURSIVE BruteValueTo(_, _, _)
BruteValueTo(node, f, limit) ==
  LET n == Len(node.children)
      vals == { BruteValueTo(node.children[k], node.children[k].fitness,
                             limit - 1) : k \in 1..n }
  IN  IF n = 0 \/ limit = 0 THEN f
      ELSE IF node.player = BotPlayer
           THEN CHOOSE v \in vals : \A w \in vals : v >= w
           ELSE CHOOSE v \in vals : \A w \in vals : v <= w

\* the value of taking `action` at the root, looking `limit` plies deep
BruteActionValueTo(state, action, limit) ==
  BruteValueTo(state.children[action + 1],
               state.children[action + 1].fitness, limit - 1)

\* brute::Bot::is_best(state, selected)
BruteIsBest(state, selected) ==
  IF Len(state.children) = 0
  THEN selected = None
  ELSE /\ IsSome(selected)
       /\ Unwrap(selected) \in 0..(Len(state.children) - 1)
       /\ \A k \in 0..(Len(state.children) - 1) :
            BruteActionValue(state, Unwrap(selected)) >= BruteActionValue(state, k)

(***************************************************************************)
(* Bot::select: the iterative deepening.  The first tier ranks the root   *)
(* actions by look_ahead (limit 1).  After a completed tier depth(d) is   *)
(* polled, d = 0, 1, 2, ..., and a true answer starts the tier one ply    *)
(* deeper.  A tier cut short by step() is dropped: select returns the     *)
(* best action of the tiers completed before it, None when there is none. *)
(* The loop also ends when a tier proved a terminal outcome.              *)
(* The result is [result, env, completed, stop]: completed is the limit   *)
(* of the deepest completed tier, stop the reason of the return.          *)
(***************************************************************************)
RECURSIVE Deepen(_, _, _, _, _, _)
\* variant of Deepen: a tier cut short hands on the best action it found
DeepenKeepsPartial(state, limit, d, best, completed, env) ==
  LET r == RunTier(state, limit, env)
  IN  IF r.cancelled
      THEN [result |-> IF IsSome(r.best) THEN r.best ELSE best,
            env |-> r.env, completed |-> completed, stop |-> "step"]
      ELSE IF r.term
           THEN [result |-> r.best, env |-> r.env, completed |-> limit,
                 stop |-> "terminal"]
           ELSE LET p == EnvDepth(r.env, d)
                IN  IF ~p.ok
                    THEN [result |-> r.best, env |-> p.env,
                          completed |-> limit, stop |-> "depth"]
                    ELSE Deepen(state, limit + 1, d + 1, r.best, limit, p.env)

Deepen(state, limit, d, best, completed, env) ==
  LET r == RunTier(state, limit, env)
  IN  IF r.cancelled
      THEN [result |-> best, env |-> r.env, completed |-> completed,
            stop |-> "step"]
      ELSE IF r.term
           THEN [result |-> r.best, env |-> r.env, completed |-> limit,
                 stop |-> "terminal"]
           ELSE LET p == EnvDepth(r.env, d)
                IN  IF ~p.ok
                    THEN [result |-> r.best, env |-> p.env,
                          completed |-> limit, stop |-> "depth"]
                    ELSE Deepen(state, limit + 1, d + 1, r.best, limit, p.env)

\* the number of step() polls a poll log shows answered with true
RECURSIVE GrantedUpTo(_, _)
GrantedUpTo(log, k) ==
  IF k = 0 THEN 0
  ELSE GrantedUpTo(log, k - 1)
         + (IF log[k].op = "step" /\ log[k].ok THEN 1 ELSE 0)

Granted(log) == GrantedUpTo(log, Len(log))

\* the run condition select acquires: condition.into_run_condition()
Acquire(e, b) ==
  IF e.via = "logger"
  THEN [e EXCEPT !.logger = LoggerIntoRunCondition(@), !.log = <<>>]
  ELSE [e EXCEPT !.rc = IntoRunCondition(b), !.log = <<>>]

\* Bot::select(state, condition)
BotSelect(state, e, b) ==
  LET acquired == Acquire(e, b)
  IN  IF Len(NodeActions(state, BotPlayer).actions) = 0
      THEN [result |-> None, env |-> acquired, completed |-> 0,
            stop |-> "noactions"]
      ELSE Deepen(state, 1, 0, None, 0, acquired)

(***************************************************************************)
(* The program: a game tree is built from the fuzz input (or is the tree  *)
(* of the doc test), a budget is chosen and, for a call made through a    *)
(* Logger, wrapped by Logger::new; then Bot::new(true).select is called   *)
(* on that state.                                                         *)
(*                                                                        *)
(*   state      the caller's game state (the root Node)                   *)
(*   pc         "build", "idle" (before the first call), "done" (select   *)
(*              returned), "panicked"; "cond" and "wrap" when a run       *)
(*              condition is polled alone, "game" when the Game contract  *)
(*              is exercised alone                                        *)
(*   budget     the budget descriptor of the calls                        *)
(*   env        the run condition of the calls: [via, logger, rc, log]    *)
(*   result     what the last call of select returned                     *)
(*   completed  the limit of the deepest tier completed in the last call  *)
(*   stop       why the last call returned: "noactions", "step", "depth", *)
(*              "terminal" ("none" before the first call), or "overflow"  *)
(*              when it panicked                                          *)
(*   history    one entry per call of select made so far: what it         *)
(*              returned and how many of its step() polls were answered   *)
(*              with true; calls repeated by SelectUntilMax share one     *)
(*              entry, marked `repeated`                                  *)
(***************************************************************************)
VARIABLES state, pc, budget, env, result, completed, stop, history

vars == <<state, pc, budget, env, result, completed, stop, history>>

\* a Logger and a condition that are not in use
NoLogger == [condition |-> [kind |-> "ToCompletion", a |-> 0, b |-> 0],
             steps |-> 0, depth |-> 0]

Init ==
  /\ state \in {RootNode, DocTree}
  /\ pc = "build"
  /\ budget = ToCompletion
  /\ env = [via |-> "bare", logger |-> NoLogger, rc |-> NoLogger.condition,
            log |-> <<>>]
  /\ result = None
  /\ completed = 0
  /\ stop = "none"
  /\ history = <<>>

\* from_bytes, one byte of bytes[4..]: the walk stops at some node, and the
\* node made from the byte is pushed there
PushNode ==
  /\ pc \in {"build", "game"}
  /\ Size(state) < MaxNodes
  /\ \E i \in FuzzBytes : \E p \in Paths(state) :
       state' = PushAt(state, p, NodeOfByte(i))
  /\ UNCHANGED <<pc, budget, env, result, completed, stop, history>>

\* the caller picks the budget, and whether select gets it bare or wrapped
\* in a Logger (Logger::new)
Configure ==
  /\ pc = "build"
  /\ \E b \in Budgets : \E v \in {"bare", "logger"} :
       /\ budget' = b
       /\ env' = [via    |-> v,
                  logger |-> IF v = "logger" THEN LoggerNew(b) ELSE NoLogger,
                  rc     |-> NoLogger.condition,
                  log    |-> <<>>]
  /\ pc' = "idle"
  /\ UNCHANGED <<state, result, completed, stop, history>>

\* select runs and returns
SelectReturns ==
  /\ \E r \in {BotSelect(state, env, budget)} :
         /\ env' = r.env
         /\ result' = r.result
         /\ completed' = r.completed
         /\ stop' = r.stop
         /\ history' = Append(history, [result   |-> r.result,
                                        granted  |-> Granted(r.env.log),
                                        repeated |-> FALSE])
  /\ pc' = "done"
  /\ UNCHANGED <<state, budget>>

\* the call of select of the fuzz target, with the budget or with
\* &mut logger
Select ==
  /\ pc = "idle"
  /\ SelectReturns

Next == PushNode \/ Configure \/ Select

Spec == Init /\ [][Next]_vars

(***************************************************************************)
(* A caller that keeps the state, the budget and the Logger, and calls    *)
(* select again and again.  The trees are those from_bytes builds from at *)
(* most MaxCallNodes bytes, and the tree of the doc test.                 *)
(***************************************************************************)
\* the trees from_bytes makes of one more byte than the trees of T
GrownByOne(T) ==
  UNION { { PushAt(t, p, NodeOfByte(i)) : p \in Paths(t), i \in FuzzBytes }
          : t \in T }

\* the trees from_bytes makes of at most n bytes
RECURSIVE TreesUpTo(_)
TreesUpTo(n) ==
  IF n = 0 THEN {RootNode}
  ELSE TreesUpTo(n - 1) \cup GrownByOne(TreesUpTo(n - 1))

InitCalls ==
  /\ state \in TreesUpTo(MaxCallNodes) \cup {DocTree}
  /\ pc = "idle"
  /\ budget \in Budgets
  /\ \E v \in {"bare", "logger"} :
       env = [via    |-> v,
              logger |-> IF v = "logger" THEN LoggerNew(budget) ELSE NoLogger,
              rc     |-> NoLogger.condition,
              log    |-> <<>>]
  /\ result = None
  /\ completed = 0
  /\ stop = "none"
  /\ history = <<>>

\* the calls of select in a history that were made one by one
Calls(h) == Cardinality({ k \in 1..Len(h) : ~h[k].repeated })

\* the next call of select through the Logger polls a Steps whose call
\* counter is u32::MAX
CounterAtMax ==
  /\ env.via = "logger"
  /\ env.logger.condition.kind = "Steps"
  /\ env.logger.condition.a = U32Max
  /\ Len(NodeActions(state, BotPlayer).actions) > 0

\* a later call of select on the same state.  When its first poll
\* overflows the call counter of the wrapped Steps, a build with overflow
\* checks panics; a build without them goes on with the counter wrapped
\* to 0.
SelectAgain ==
  /\ pc = "done"
  /\ Calls(history) < MaxCalls
  /\ \/ SelectReturns
     \/ /\ CounterAtMax
        /\ pc' = "panicked"
        /\ stop' = "overflow"
        /\ UNCHANGED <<state, budget, env, result, completed, history>>

\* select called again and again through a Logger whose Steps is spent,
\* until the call counter of the Steps is u32::MAX: every one of these
\* calls polls step() once, is refused and returns None.
SelectUntilMax ==
  /\ pc \in {"idle", "done"}
  /\ Calls(history) < MaxCalls
  /\ env.via = "logger"
  /\ env.logger.condition.kind = "Steps"
  /\ env.logger.condition.a # U32Max
  /\ ~CondStep(env.logger.condition).ok
  /\ Len(NodeActions(state, BotPlayer).actions) > 0
  /\ env' = [env EXCEPT !.logger.condition.a = U32Max,
                        !.logger.steps = 1,
                        !.logger.depth = 0,
                        !.log = << [op |-> "step", arg |-> 0, ok |-> FALSE] >>]
  /\ result' = None
  /\ completed' = 0
  /\ stop' = "step"
  /\ pc' = "done"
  /\ history' = Append(history, [result |-> None, granted |-> 0,
                                 repeated |-> TRUE])
  /\ UNCHANGED <<state, budget>>

NextCalls == Select \/ SelectAgain \/ SelectUntilMax

SpecCalls == InitCalls /\ [][NextCalls]_vars

\* the condition the polls of the calls act on
PolledCondition == IF env.via = "logger" THEN env.logger.condition ELSE env.rc

(***************************************************************************)
(* A run condition polled on its own, by any caller: step() and depth(d)  *)
(* in any order.  env.log is the record of the polls.                     *)
(***************************************************************************)
InitCond ==
  /\ state = RootNode
  /\ pc = "cond"
  /\ budget \in Budgets
  /\ \E v \in {"bare", "logger"} :
       env = Acquire([via    |-> v,
                      logger |-> IF v = "logger" THEN LoggerNew(budget)
                                                 ELSE NoLogger,
                      rc     |-> NoLogger.condition,
                      log    |-> <<>>], budget)
  /\ result = None
  /\ completed = 0
  /\ stop = "none"
  /\ history = <<>>

PollStep ==
  /\ pc = "cond"
  /\ Len(env.log) < MaxPolls
  /\ env' = EnvStep(env).env
  /\ UNCHANGED <<state, pc, budget, result, completed, stop, history>>

PollDepth ==
  /\ pc = "cond"
  /\ Len(env.log) < MaxPolls
  /\ \E d \in 0..(MaxDepthD + 1) : env' = EnvDepth(env, d).env
  /\ UNCHANGED <<state, pc, budget, result, completed, stop, history>>

NextCond == PollStep \/ PollDepth

SpecCond == InitCond /\ [][NextCond]_vars

(***************************************************************************)
(* The Game contract exercised on its own: on a tree built as from_bytes  *)
(* builds it, the caller calls look_ahead as the trait defines it by      *)
(* default, or execute, with one of the actions of the state.  result is  *)
(* the fitness returned, completed the action, stop the method called.    *)
(***************************************************************************)
InitGame ==
  /\ state \in {RootNode, DocTree}
  /\ pc = "game"
  /\ budget = ToCompletion
  /\ env = [via |-> "bare", logger |-> NoLogger, rc |-> NoLogger.condition,
            log |-> <<>>]
  /\ result = None
  /\ completed = 0
  /\ stop = "none"
  /\ history = <<>>

LookAheadCall ==
  /\ pc = "game"
  /\ \E k \in 1..Len(NodeActions(state, BotPlayer).actions) :
       \E r \in {DefaultLookAhead(state,
                     NodeActions(state, BotPlayer).actions[k], BotPlayer)} :
         /\ state' = r.receiver
         /\ result' = Some(r.fitness)
         /\ completed' = NodeActions(state, BotPlayer).actions[k]
  /\ stop' = "look_ahead"
  /\ UNCHANGED <<pc, budget, env, history>>

ExecuteCall ==
  /\ pc = "game"
  /\ \E k \in 1..Len(NodeActions(state, BotPlayer).actions) :
       \E x \in {NodeExecute(state,
                     NodeActions(state, BotPlayer).actions[k], BotPlayer)} :
         /\ state' = x.state
         /\ result' = Some(x.fitness)
         /\ completed' = NodeActions(state, BotPlayer).actions[k]
  /\ stop' = "execute"
  /\ UNCHANGED <<pc, budget, env, history>>

NextGame == PushNode \/ LookAheadCall \/ ExecuteCall

SpecGame == InitGame /\ [][NextGame]_vars

(***************************************************************************)
(* A Steps budget polled on its own for as long as the caller likes.  The *)
(* caller polls step() once, or keeps polling a budget that refuses until *)
(* the call counter is u32::MAX.  The increment of the counter at         *)
(* u32::MAX overflows: a build with overflow checks panics there, a build *)
(* without them wraps to 0.  (A Logger counts the polls in a u32 of its   *)
(* own, which in one acquisition runs level with the counter of the       *)
(* Steps it wraps.)                                                       *)
(***************************************************************************)
InitWrap ==
  /\ state = RootNode
  /\ pc = "wrap"
  /\ budget \in { Steps(n) : n \in 0..MaxStepsN }
  /\ \E v \in {"bare", "logger"} :
       env = Acquire([via    |-> v,
                      logger |-> IF v = "logger" THEN LoggerNew(budget)
                                                 ELSE NoLogger,
                      rc     |-> NoLogger.condition,
                      log    |-> <<>>], budget)
  /\ result = None
  /\ completed = 0
  /\ stop = "none"
  /\ history = <<>>

\* one call of step(); at u32::MAX either outcome of the overflow
WrapStep ==
  /\ pc = "wrap"
  /\ Len(env.log) < MaxPolls
  /\ \/ /\ env' = EnvStep(env).env
        /\ UNCHANGED <<pc, stop>>
     \/ /\ PolledCondition.a = U32Max
        /\ pc' = "panicked"
        /\ stop' = "overflow"
        /\ UNCHANGED env
  /\ UNCHANGED <<state, budget, result, completed, history>>

\* step() called again and again, every call refused, until the counter is
\* u32::MAX
StepUntilMax ==
  /\ pc = "wrap"
  /\ Len(env.log) < MaxPolls
  /\ PolledCondition.a # U32Max
  /\ ~CondStep(PolledCondition).ok
  /\ env' = IF env.via = "logger"
            THEN [env EXCEPT !.logger.condition.a = U32Max,
                             !.logger.steps = U32Max,
                             !.log = Append(@, [op |-> "steps", arg |-> 0,
                                                ok |-> FALSE])]
            ELSE [env EXCEPT !.rc.a = U32Max,
                             !.log = Append(@, [op |-> "steps", arg |-> 0,
                                                ok |-> FALSE])]
  /\ UNCHANGED <<state, pc, budget, result, completed, stop, history>>

NextWrap == WrapStep \/ StepUntilMax

SpecWrap == InitWrap /\ [][NextWrap]_vars

TypeOK ==
  /\ pc \in {"build", "idle", "done", "panicked", "cond", "wrap", "game"}
  /\ budget \in Budgets
  /\ env.via \in {"bare", "logger"}
  /\ result = None \/ Unwrap(result) \in 0..(Len(state.children) - 1)

(***************************************************************************)
(* Definitions the properties are stated with.                            *)
(***************************************************************************)
\* the number of step() polls among the first k entries of a poll log
RECURSIVE StepPolls(_, _)
StepPolls(log, k) ==
  IF k = 0 THEN 0
  ELSE StepPolls(log, k - 1) + (IF log[k].op = "step" THEN 1 ELSE 0)

\* what the tier of depth limit `lim` chooses when nothing cuts it short
TierChoice(s, lim) ==
  RunTier(s, lim, [via |-> "bare", logger |-> NoLogger,
                   rc |-> NoLogger.condition, log |-> <<>>]).best

\* what select returns for the state s and a budget b handed over bare
SelectWith(s, b) ==
  BotSelect(s, [via |-> "bare", logger |-> NoLogger,
                rc |-> NoLogger.condition, log |-> <<>>], b)

\* the number of plies of the longest line of play below `node`
RECURSIVE Height(_)
Height(node) ==
  LET RECURSIVE Deepest(_)
      Deepest(k) == IF k = 0 THEN 0
                    ELSE Max(1 + Height(node.children[k]), Deepest(k - 1))
  IN  Deepest(Len(node.children))

\* the number of depth() polls in a poll log
DepthPolls(log) == Cardinality({ k \in 1..Len(log) : log[k].op = "depth" })

\* the polls of `log` from the k-th entry on were answered as the bare run
\* condition c, polled in the same order, answers them
RECURSIVE AnsweredAsBare(_, _, _)
AnsweredAsBare(c, log, k) ==
  IF k > Len(log) THEN TRUE
  ELSE CASE log[k].op = "step" ->
              LET r == CondStep(c)
              IN  r.ok = log[k].ok /\ AnsweredAsBare(r.cond, log, k + 1)
         [] log[k].op = "depth" ->
              LET r == CondDepth(c, log[k].arg)
              IN  r.ok = log[k].ok /\ AnsweredAsBare(r.cond, log, k + 1)
         [] OTHER -> AnsweredAsBare(c, log, k + 1)

\* the root actions that are best by the oracle's minimax `limit` plies deep
BestActionsTo(s, limit) ==
  { a \in 0..(Len(s.children) - 1) :
      \A b \in 0..(Len(s.children) - 1) :
        BruteActionValueTo(s, a, limit) >= BruteActionValueTo(s, b, limit) }

\* the state that the moves of `path` (child indices, from 1) lead to
RECURSIVE NodeAt(_, _)
NodeAt(node, path) ==
  IF path = <<>> THEN node
  ELSE NodeAt(node.children[Head(path)], Tail(path))

\* every execute call of the last call of select was made with an action
\* that the latest actions query, made in the same tier on the same state,
\* returned; and every state the engine queried or executed on is the
\* caller's state after the moves that lead there, whatever was explored
\* before
ExecuteDiscipline ==
  \A k \in 1..Len(env.log) :
    /\ env.log[k].op \in {"actions", "execute"}
         => /\ env.log[k].at \in Paths(state)
            /\ env.log[k].on = NodeAt(state, env.log[k].at)
    /\ env.log[k].op = "execute"
         => \E j \in 1..(k - 1) :
              /\ env.log[j].op = "actions"
              /\ env.log[j].at = env.log[k].at
              /\ env.log[j].on = env.log[k].on
              /\ env.log[k].arg \in 0..(env.log[j].arg - 1)
              /\ \A i \in (j + 1)..(k - 1) :
                   /\ env.log[i].op # "depth"
                   /\ env.log[i].op = "actions"
                        => env.log[i].at # env.log[k].at

\* the step() polls answered with true in the calls of select so far
RECURSIVE GrantedInCalls(_)
GrantedInCalls(k) ==
  IF k = 0 THEN 0 ELSE GrantedInCalls(k - 1) + history[k].granted

\* the root state has legal actions for the bot's player
HasActions == Len(NodeActions(state, BotPlayer).actions) > 0

\* the first depth() poll of the last call, None when there was none
FirstDepthPoll ==
  LET idx == { k \in 1..Len(env.log) : env.log[k].op = "depth" }
  IN  IF idx = {} THEN None
      ELSE Some(env.log[CHOOSE k \in idx : \A j \in idx : k <= j])

\* the number of step() polls of the last tier of the last call
LastTierStepPolls ==
  LET idx == { k \in 1..Len(env.log) : env.log[k].op = "depth" }
  IN  IF idx = {} THEN StepPolls(env.log, Len(env.log))
      ELSE StepPolls(env.log, Len(env.log))
             - StepPolls(env.log, CHOOSE k \in idx : \A j \in idx : k >= j)

(***************************************************************************)
(* C1: run to completion, select returns an action the brute-force oracle *)
(* judges best (equal fitness allowed), and None, which the oracle        *)
(* accepts, when the root has no actions.                                 *)
(***************************************************************************)
C1_BestByOracle ==
  (pc = "done" /\ budget = ToCompletion) => BruteIsBest(state, result)

\* a finished run to completion where the last tier, at least three plies
\* deep, chose another action than the look-ahead tier and, pruning, did
\* not expand every node of the tree
C1_Witness ==
  /\ pc = "done"
  /\ budget = ToCompletion
  /\ stop = "terminal"
  /\ completed >= 3
  /\ IsSome(result)
  /\ result # TierChoice(state, 1)
  /\ LastTierStepPolls < Size(state) + 1

(***************************************************************************)
(* C2: when step() cuts a tier short after some tier was completed,       *)
(* select returns the action chosen by the deepest completed tier; what   *)
(* the cut-short tier found is dropped.                                   *)
(***************************************************************************)
C2_CutShortKeepsCompleted ==
  (pc = "done" /\ stop = "step" /\ completed >= 1)
    => result = TierChoice(state, completed)

\* a tier was cut short whose complete run would have chosen otherwise
C2_Witness ==
  /\ pc = "done"
  /\ stop = "step"
  /\ completed >= 1
  /\ IsSome(result)
  /\ TierChoice(state, completed + 1) # result

(***************************************************************************)
(* C3: on the two-ply tree of the doc test, select returns action 0 with  *)
(* the budget Depth(0) and action 1 with the budget Depth(1).             *)
(***************************************************************************)
C3_DocExample ==
  (pc = "done" /\ state = DocTree)
    => /\ budget = Depth(0) => result = Some(0)
       /\ budget = Depth(1) => result = Some(1)

C3_Witness ==
  /\ pc = "done"
  /\ state = DocTree
  /\ budget = Depth(1)
  /\ result = Some(1)
  /\ Len(env.log) > 0

(***************************************************************************)
(* C4: Steps(N) answers step() with true on each of the first N calls and *)
(* with false from call N+1 on, and depth(d) with true for every d.       *)
(***************************************************************************)
C4_StepsTrueForFirstN ==
  (pc = "cond" /\ budget.kind = "Steps")
    => \A k \in 1..Len(env.log) :
         IF env.log[k].op = "step"
         THEN env.log[k].ok = (StepPolls(env.log, k) <= budget.n)
         ELSE env.log[k].ok

C6_DepthTrueUpToD ==
  (pc = "cond" /\ budget.kind = "Depth")
    => \A k \in 1..Len(env.log) :
         env.log[k].op = "depth"
           => env.log[k].ok = (env.log[k].arg <= budget.n)

(***************************************************************************)
(* C7: select returns None when the root has no legal action for the      *)
(* player, whatever the budget, and an action it returns is one of the    *)
(* actions of the root state.                                             *)
(***************************************************************************)
C7_NoneOrLegalAction ==
  pc = "done"
    => /\ ~HasActions => result = None
       /\ IsSome(result)
            => \E k \in 1..Len(NodeActions(state, BotPlayer).actions) :
                 NodeActions(state, BotPlayer).actions[k] = Unwrap(result)

\* select returned from a root without actions, under a limited budget
C7_Witness ==
  /\ pc = "done"
  /\ ~HasActions
  /\ stop = "noactions"
  /\ result = None
  /\ budget # ToCompletion

(***************************************************************************)
(* C8, as amended: when step() returns false before the first tier is     *)
(* completed (as with Steps(0)), select returns None although there are   *)
(* legal actions; when the first depth() poll returns false, select       *)
(* returns the choice of the look-ahead tier completed before that poll;  *)
(* and select never returns an action of a tier that did not complete.    *)
(***************************************************************************)
C8_NoneBeforeFirstTier ==
  (pc = "done" /\ HasActions)
    => /\ budget = Steps(0) => result = None
       /\ completed = 0 => (result = None /\ stop = "step")
       /\ (FirstDepthPoll # None /\ ~Unwrap(FirstDepthPoll).ok)
            => result = TierChoice(state, 1)
       /\ completed >= 1 => result = TierChoice(state, completed)

\* the budget Steps(0) refused the first step() poll on a root with actions
C8_Witness ==
  /\ pc = "done"
  /\ HasActions
  /\ budget = Steps(0)
  /\ env.log = << [op |-> "step", arg |-> 0, ok |-> FALSE] >>
  /\ result = None

\* C8 as stated: a refused first poll, of step() or of depth(), makes
\* select return None
C8_Original ==
  (pc = "done" /\ HasActions)
    => /\ ~env.log[1].ok => result = None
       /\ (FirstDepthPoll # None /\ ~Unwrap(FirstDepthPoll).ok)
            => result = None

(***************************************************************************)
(* C9: after a call through a Logger, Logger.depth() is the depth of the  *)
(* deepest tier completed in that call (the tier started after depth(d)   *)
(* answered true is the tier of depth d): a depth that depth() refused,   *)
(* or whose tier step() cut short, is not reported.                       *)
(***************************************************************************)
C9_LoggerDepthIsCompleted ==
  (pc = "done" /\ env.via = "logger" /\ completed >= 2)
    => LoggerDepth(env.logger) = completed - 2

(***************************************************************************)
(* C10: after every call through a Logger, Logger.steps() is the number   *)
(* of step() polls of that call alone.                                    *)
(***************************************************************************)
C10_LoggerStepsOfLastCall ==
  (pc = "done" /\ env.via = "logger")
    => LoggerSteps(env.logger) = StepPolls(env.log, Len(env.log))

\* a later call through a Logger whose condition was already polled in an
\* earlier call
C10_Witness ==
  /\ pc = "done"
  /\ env.via = "logger"
  /\ env.logger.condition.kind = "Steps"
  /\ LoggerSteps(env.logger) >= 1
  /\ env.logger.condition.a > LoggerSteps(env.logger)

(***************************************************************************)
(* C11, as amended: the action select returns with Depth(D+1) is, by the  *)
(* oracle's minimax taken as deep as the deepest tier of that call, not   *)
(* worse than the action select returns with Depth(D) on the same tree.   *)
(***************************************************************************)
C11_DeeperNotWorseAtItsDepth ==
  (pc = "done" /\ HasActions /\ budget.kind = "Depth" /\ budget.n >= 1)
    => LET cheaper == SelectWith(state, Depth(budget.n - 1)).result
       IN  BruteActionValueTo(state, Unwrap(result), completed)
             >= BruteActionValueTo(state, Unwrap(cheaper), completed)

\* the call with Depth(D+1) went a tier deeper than the call with Depth(D)
\* and chose another action
C11_Witness ==
  /\ pc = "done"
  /\ HasActions
  /\ budget.kind = "Depth"
  /\ budget.n >= 1
  /\ completed > SelectWith(state, Depth(budget.n - 1)).completed
  /\ result # SelectWith(state, Depth(budget.n - 1)).result

\* C11 as stated: the action select returns with Depth(D+1) is, by the
\* oracle's minimax of the full tree, not worse than the action select
\* returns with Depth(D)
C11_Original ==
  (pc = "done" /\ HasActions /\ budget.kind = "Depth" /\ budget.n >= 1)
    => LET cheaper == SelectWith(state, Depth(budget.n - 1)).result
       IN  BruteActionValue(state, Unwrap(result))
             >= BruteActionValue(state, Unwrap(cheaper))

(***************************************************************************)
(* C12: with the budget ToCompletion a call of select on a finite tree    *)
(* returns, and it returns because a tier proved a terminal outcome (or   *)
(* the root had no actions): the deepening stops on its own, after at     *)
(* most as many depth() polls as the tree is plies high.                  *)
(***************************************************************************)
C12_ToCompletionReturns ==
  /\ (pc = "idle" /\ budget = ToCompletion)
       => BotSelect(state, env, budget).stop \in {"terminal", "noactions"}
  /\ (pc = "done" /\ budget = ToCompletion)
       => /\ stop \in {"terminal", "noactions"}
          /\ completed <= Height(state) + 1
          /\ DepthPolls(env.log) <= Height(state)
          /\ \A k \in 1..Len(env.log) : env.log[k].ok

\* a run to completion that deepened through every ply of a tree three
\* plies high before it stopped
C12_Witness ==
  /\ pc = "done"
  /\ budget = ToCompletion
  /\ stop = "terminal"
  /\ Height(state) >= 3
  /\ completed = Height(state) + 1
  /\ DepthPolls(env.log) = Height(state)

(***************************************************************************)
(* C13: in the first call through a freshly made Logger every step() and  *)
(* depth(d) poll is answered as the wrapped budget, polled bare in the    *)
(* same order, answers it, and select returns the action it returns with  *)
(* the bare budget on the same state.                                     *)
(***************************************************************************)
C13_LoggerTransparent ==
  (pc = "done" /\ env.via = "logger" /\ Len(history) = 1
     /\ ~history[1].repeated)
    => /\ AnsweredAsBare(IntoRunCondition(budget), env.log, 1)
       /\ LET bare == SelectWith(state, budget)
          IN  result = bare.result /\ stop = bare.stop

\* the first call through a Logger around a Steps budget that ran out in
\* the middle of a tier, after another tier was completed
C13_Witness ==
  /\ pc = "done"
  /\ env.via = "logger"
  /\ Len(history) = 1
  /\ ~history[1].repeated
  /\ budget.kind = "Steps"
  /\ stop = "step"
  /\ IsSome(result)
  /\ LoggerSteps(env.logger) >= 3

(***************************************************************************)
(* C14: in a call of select a refused poll, of step() or of depth(), is   *)
(* the last thing the engine does with the run condition and the game (no *)
(* poll, no actions query, no execute follows) and select returns for     *)
(* that reason; depth(d) is polled with d = 0, 1, 2, ..., once after each *)
(* completed tier; step() is polled once for every node expanded: at the  *)
(* start of each tier for the root, after each execute for the state it   *)
(* led to, and each poll answered true is followed by the actions query   *)
(* of that node.                                                          *)
(***************************************************************************)
C14_CancellationIsFinal ==
  pc = "done"
    => LET log == env.log
           n == Len(log)
       IN  /\ \A k \in 1..n : ~log[k].ok => k = n
           /\ (n > 0 /\ ~log[n].ok) => stop = log[n].op
           /\ stop \in {"step", "depth"} => (n > 0 /\ ~log[n].ok)
           /\ \A k \in 1..n :
                log[k].op = "depth"
                  => log[k].arg = DepthPolls(SubSeq(log, 1, k - 1))
           /\ n > 0 => log[1].op = "step"
           /\ \A k \in 1..n :
                /\ log[k].op = "actions" => log[k - 1].op = "step"
                /\ (log[k].op = "step" /\ log[k].ok)
                     => (k < n /\ log[k + 1].op = "actions")
                /\ (log[k].op = "step" /\ k > 1)
                     => log[k - 1].op \in {"execute", "depth"}
                /\ (log[k].op \in {"execute", "depth"} /\ log[k].ok)
                     => (k < n /\ log[k + 1].op = "step")

\* step() refused a poll in the middle of the third tier
C14_Witness ==
  /\ pc = "done"
  /\ stop = "step"
  /\ DepthPolls(env.log) = 2
  /\ env.log[Len(env.log) - 1].op = "execute"
  /\ ~env.log[Len(env.log)].ok

(***************************************************************************)
(* C15: when select returns the choice of a completed tier and several    *)
(* root actions have the best value of that tier, select returns the one  *)
(* that actions(player) supplied first (Node supplies 0, 1, 2, ...).      *)
(***************************************************************************)
C15_FirstOfEqualsWins ==
  (pc = "done" /\ completed >= 1)
    => /\ IsSome(result)
       /\ Unwrap(result) \in BestActionsTo(state, completed)
       /\ \A a \in BestActionsTo(state, completed) : Unwrap(result) <= a

\* a tier at least two plies deep found the best value at two actions, the
\* second and the third of the root, and select returned the second
C15_Witness ==
  /\ pc = "done"
  /\ completed >= 2
  /\ Cardinality(BestActionsTo(state, completed)) >= 2
  /\ result = Some(1)
  /\ 2 \in BestActionsTo(state, completed)

(***************************************************************************)
(* C16: a call of the default look_ahead(action, player) returns the      *)
(* fitness that execute(action, player) returns on the same state (for    *)
(* Node also the fitness its own look_ahead returns) and leaves the       *)
(* receiver as it was.                                                    *)
(***************************************************************************)
C16_DefaultLookAheadFrame ==
  [][LookAheadCall
       => /\ state' = state
          /\ result' = Some(NodeExecute(state, completed', BotPlayer).fitness)
          /\ result' = Some(NodeLookAhead(state, completed', BotPlayer))]_vars

\* look_ahead was called with the second action of a state, an action that
\* leads to a state with children of its own and another fitness
C16_Witness ==
  /\ pc = "game"
  /\ stop = "look_ahead"
  /\ completed = 1
  /\ Len(state.children) >= 2
  /\ result = Some(state.children[2].fitness)
  /\ state.children[2].fitness # state.fitness
  /\ Len(state.children[2].children) >= 1

(***************************************************************************)
(* C17: in every call of select each execute(action, ...) is made with an *)
(* action returned by the actions query made before it on that same       *)
(* state, the state a branch is explored from is the caller's state after *)
(* the moves leading there (nothing done in a sibling branch shows), and  *)
(* the caller's state is the same after the call as before, also when the *)
(* call was cut short.                                                    *)
(***************************************************************************)
C17_ExecuteOnOwnCopies ==
  [][(pc' = "done" /\ history' # history)
       => (state' = state /\ ExecuteDiscipline')]_vars

\* a call cut short by step() after it had explored, in one tier, a
\* branch of the root and then a sibling of that branch
C17_Witness ==
  /\ pc = "done"
  /\ stop = "step"
  /\ \E i, j \in 1..Len(env.log) :
       /\ i < j
       /\ env.log[i].op = "execute" /\ env.log[i].at = <<>>
       /\ env.log[j].op = "execute" /\ env.log[j].at = <<>>
       /\ env.log[i].arg # env.log[j].arg
       /\ Len(env.log[i].on.children[env.log[i].arg + 1].children) >= 1

C19_StepsStaysFalse ==
  pc \in {"wrap", "panicked"}
    => /\ pc # "panicked"
       /\ \A i, j \in 1..Len(env.log) :
            (i < j /\ ~env.log[i].ok) => ~env.log[j].ok

(***************************************************************************)
(* C20: acquiring the run condition from &mut Logger resets Logger.steps  *)
(* and Logger.depth and leaves the wrapped condition as the call before   *)
(* left it, so that through a Logger around Steps(N) the step() polls     *)
(* answered with true, counted over all the calls of select made through  *)
(* that Logger, are never more than N.                                    *)
(***************************************************************************)
C20_LoggerSharesStepBudget ==
  (pc = "done" /\ env.via = "logger" /\ budget.kind = "Steps")
    => /\ env.logger.condition.b = budget.n
       /\ GrantedInCalls(Len(history)) <= budget.n

====
